---- MODULE Spec2Model ----
(***************************************************************************)
(* Model of the JustTreats API (src/main.py, src/auth.py, src/database.py):*)
(* the tables of database.py are the state, every FastAPI handler of       *)
(* main.py is one action, and the last request/response pair is kept so    *)
(* that what a handler returns can be stated.                              *)
(*                                                                         *)
(* Prices and totals are exact integers (minor units); datetimes are       *)
(* integer instants (minutes).  Optional[T] is <<>> for None and <<v>>     *)
(* for a value v.  A JSON text is a tagged tree (JNull, JNum, JStr, JBool, *)
(* JArr, JObj), distinct from the pydantic model it encodes.               *)
(***************************************************************************)
EXTENDS Integers, Sequences, FiniteSets, TLC

VARIABLES
    products,   \* table "products": id -> row
    addons,     \* table "addons": id -> row
    events,     \* table "events": id -> row
    banners,    \* table "banners": sequence of rows, in storage order
    contacts,   \* table "contacts": sequence of rows, in storage order
    orders,     \* table "orders": sequence of rows, row i has id i
    admins,     \* table "admins": sequence of rows
    now,        \* the server clock, in minutes
    issued,     \* history: the tokens issued by admin_login, with their issue time
    puts,       \* history: the body of the last PUT of the banner / of the contact,
                \* and how many there were (counted up to MaxPutCount)
    inflight,   \* per client: the request it has in flight between its first query
                \* and its commit, with what its session has loaded
    req,        \* the last request
    resp        \* the response to it

vars == <<products, addons, events, banners, contacts, orders, admins, now,
          issued, puts, inflight, req, resp>>

----------------------------------------------------------------------------
(* Bounds of the model.                                                    *)

MaxRowId == 2
MaxPricedId == 1
MaxOrders == 1
MaxOrdersRead == 2
MaxNodes == 2
MaxNodesLookup == 3
MaxClock == 1
MaxTicks == 3
MaxPutCount == 2
MaxTokens == 2
MaxEventTime == 2
MaxClients == 2

----------------------------------------------------------------------------
(* Optional values, status codes, small helpers.                           *)

None == <<>>
Some(v) == <<v>>

HTTP_200 == 200
HTTP_400 == 400
HTTP_401 == 401
HTTP_404 == 404
HTTP_500 == 500

SetMax(S) == CHOOSE m \in S : \A n \in S : n <= m

\* The id the database gives a new row of a table keyed by Integer primary key.
NextRowId(table) == IF DOMAIN table = {} THEN 1 ELSE SetMax(DOMAIN table) + 1

SeqsUpTo(S, n) == UNION {[1..k -> S] : k \in 0..n}

Response(op, status, detail, body) ==
    [op |-> op, status |-> status, detail |-> detail, body |-> body]

Request(op, args) == [op |-> op, args |-> args]

\* The clients that can have a request in flight at the same time, and the
\* state of a client that has none.
Clients == 1..MaxClients
Idle == [pc |-> "idle"]

----------------------------------------------------------------------------
(* JSON texts (json.dumps / json.loads).                                   *)

JNull == <<"null">>
JNum(n) == <<"num", n>>
JStr(s) == <<"str", s>>
JBool(b) == <<"bool", b>>
JArr(xs) == <<"arr", xs>>
JObj(pairs) == <<"obj", pairs>>

JHas(obj, key) == \E i \in 1..Len(obj[2]) : obj[2][i][1] = key
JGet(obj, key) ==
    LET i == CHOOSE j \in 1..Len(obj[2]) : obj[2][j][1] = key
    IN  obj[2][i][2]

dumps_int_list(xs) == JArr([i \in 1..Len(xs) |-> JNum(xs[i])])
loads_int_list(j) == [i \in 1..Len(j[2]) |-> j[2][i][2]]

dumps_opt_strAlt(v) == IF v = None THEN JStr("") ELSE JStr(v[1])
dumps_opt_str(v) == IF v = None THEN JNull ELSE JStr(v[1])
loads_opt_str(j) == IF j = JNull THEN None ELSE Some(j[2])

----------------------------------------------------------------------------
(* Products.                                                               *)

\* The row create_product inserts.
ProductRow(id, product) ==
    [id |-> id,
     name |-> product.name,
     price |-> product.price,
     available |-> product.available,
     applicableAddons |-> dumps_int_list(product.applicableAddons),
     eventOnly |-> product.eventOnly,
     eventId |-> product.eventId]

\* The response body built from a row: applicableAddons parsed back.
ProductBody(row) ==
    [id |-> Some(row.id),
     name |-> row.name,
     price |-> row.price,
     available |-> row.available,
     applicableAddons |-> loads_int_list(row.applicableAddons),
     eventOnly |-> row.eventOnly,
     eventId |-> row.eventId]

\* The cross-field rule of create_product and update_product.
EventIdMissingAlt(product) == FALSE
EventIdMissing(product) == product.eventOnly /\ product.eventId = None

create_product(product) ==
    /\ UNCHANGED inflight
    /\ req' = Request("create_product", [body |-> product])
    /\ IF EventIdMissing(product)
       THEN /\ resp' = Response("create_product", HTTP_400,
                                <<"eventId is required when eventOnly is true">>, <<>>)
            /\ UNCHANGED products
       ELSE LET id == NextRowId(products)
                row == ProductRow(id, product)
            IN  /\ products' = (id :> row) @@ products
                /\ resp' = Response("create_product", HTTP_200, <<>>, <<ProductBody(row)>>)
    /\ UNCHANGED <<addons, events, banners, contacts, orders, admins, now, issued, puts>>

get_product(product_id) ==
    /\ UNCHANGED inflight
    /\ req' = Request("get_product", [id |-> product_id])
    /\ resp' = IF product_id \notin DOMAIN products
               THEN Response("get_product", HTTP_404, <<"Product not found">>, <<>>)
               ELSE Response("get_product", HTTP_200, <<>>, <<ProductBody(products[product_id])>>)
    /\ UNCHANGED <<products, addons, events, banners, contacts, orders, admins, now,
                   issued, puts>>

\* update_product with its two checks in the other order.
update_productAlt(product_id, updated_product) ==
    /\ UNCHANGED inflight
    /\ req' = Request("update_product", [id |-> product_id, body |-> updated_product])
    /\ IF EventIdMissing(updated_product)
       THEN /\ resp' = Response("update_product", HTTP_400,
                                <<"eventId is required when eventOnly is true">>, <<>>)
            /\ UNCHANGED products
       ELSE IF product_id \notin DOMAIN products
       THEN /\ resp' = Response("update_product", HTTP_404, <<"Product not found">>, <<>>)
            /\ UNCHANGED products
       ELSE LET row == ProductRow(product_id, updated_product)
            IN  /\ products' = [products EXCEPT ![product_id] = row]
                /\ resp' = Response("update_product", HTTP_200, <<>>, <<ProductBody(row)>>)
    /\ UNCHANGED <<addons, events, banners, contacts, orders, admins, now, issued, puts>>

update_product(product_id, updated_product) ==
    /\ UNCHANGED inflight
    /\ req' = Request("update_product", [id |-> product_id, body |-> updated_product])
    /\ IF product_id \notin DOMAIN products
       THEN /\ resp' = Response("update_product", HTTP_404, <<"Product not found">>, <<>>)
            /\ UNCHANGED products
       ELSE IF EventIdMissing(updated_product)
       THEN /\ resp' = Response("update_product", HTTP_400,
                                <<"eventId is required when eventOnly is true">>, <<>>)
            /\ UNCHANGED products
       ELSE LET row == ProductRow(product_id, updated_product)
            IN  /\ products' = [products EXCEPT ![product_id] = row]
                /\ resp' = Response("update_product", HTTP_200, <<>>, <<ProductBody(row)>>)
    /\ UNCHANGED <<addons, events, banners, contacts, orders, admins, now, issued, puts>>

\* delete_product that also deletes the orders that reference the product.
delete_productAlt(product_id) ==
    /\ UNCHANGED inflight
    /\ req' = Request("delete_product", [id |-> product_id])
    /\ IF product_id \notin DOMAIN products
       THEN /\ resp' = Response("delete_product", HTTP_404, <<"Product not found">>, <<>>)
            /\ UNCHANGED <<products, orders>>
       ELSE /\ products' = [i \in DOMAIN products \ {product_id} |-> products[i]]
            /\ orders' = SelectSeq(orders, LAMBDA o :
                            \A i \in 1..Len(o.items[2]) :
                               JGet(o.items[2][i], "productId") # JNum(product_id))
            /\ resp' = Response("delete_product", HTTP_200,
                                <<"Product deleted successfully">>, <<>>)
    /\ UNCHANGED <<addons, events, banners, contacts, admins, now, issued, puts>>

delete_product(product_id) ==
    /\ UNCHANGED inflight
    /\ req' = Request("delete_product", [id |-> product_id])
    /\ IF product_id \notin DOMAIN products
       THEN /\ resp' = Response("delete_product", HTTP_404, <<"Product not found">>, <<>>)
            /\ UNCHANGED products
       ELSE /\ products' = [i \in DOMAIN products \ {product_id} |-> products[i]]
            /\ resp' = Response("delete_product", HTTP_200,
                                <<"Product deleted successfully">>, <<>>)
    /\ UNCHANGED <<addons, events, banners, contacts, orders, admins, now, issued, puts>>

----------------------------------------------------------------------------
(* Addons.                                                                 *)

AddonRow(id, addon) ==
    [id |-> id,
     name |-> addon.name,
     price |-> addon.price,
     available |-> addon.available,
     applicableProducts |-> dumps_int_list(addon.applicableProducts)]

AddonBody(row) ==
    [id |-> Some(row.id),
     name |-> row.name,
     price |-> row.price,
     available |-> row.available,
     applicableProducts |-> loads_int_list(row.applicableProducts)]

\* Addon.id == addon.id finds a row only for a client-supplied id that is stored.
AddonIdTaken(addon) == addon.id # None /\ addon.id[1] \in DOMAIN addons

create_addon(addon) ==
    /\ UNCHANGED inflight
    /\ req' = Request("create_addon", [body |-> addon])
    /\ IF AddonIdTaken(addon)
       THEN /\ resp' = Response("create_addon", HTTP_400,
                                <<"Addon with this ID already exists">>, <<>>)
            /\ UNCHANGED addons
       ELSE LET id == NextRowId(addons)
                row == AddonRow(id, addon)
            IN  /\ addons' = (id :> row) @@ addons
                /\ resp' = Response("create_addon", HTTP_200, <<>>, <<AddonBody(row)>>)
    /\ UNCHANGED <<products, events, banners, contacts, orders, admins, now, issued, puts>>

get_addon(addon_id) ==
    /\ UNCHANGED inflight
    /\ req' = Request("get_addon", [id |-> addon_id])
    /\ resp' = IF addon_id \notin DOMAIN addons
               THEN Response("get_addon", HTTP_404, <<"Addon not found">>, <<>>)
               ELSE Response("get_addon", HTTP_200, <<>>, <<AddonBody(addons[addon_id])>>)
    /\ UNCHANGED <<products, addons, events, banners, contacts, orders, admins, now,
                   issued, puts>>

update_addon(addon_id, updated_addon) ==
    /\ UNCHANGED inflight
    /\ req' = Request("update_addon", [id |-> addon_id, body |-> updated_addon])
    /\ IF addon_id \notin DOMAIN addons
       THEN /\ resp' = Response("update_addon", HTTP_404, <<"Addon not found">>, <<>>)
            /\ UNCHANGED addons
       ELSE LET row == AddonRow(addon_id, updated_addon)
            IN  /\ addons' = [addons EXCEPT ![addon_id] = row]
                /\ resp' = Response("update_addon", HTTP_200, <<>>, <<AddonBody(row)>>)
    /\ UNCHANGED <<products, events, banners, contacts, orders, admins, now, issued, puts>>

delete_addon(addon_id) ==
    /\ UNCHANGED inflight
    /\ req' = Request("delete_addon", [id |-> addon_id])
    /\ IF addon_id \notin DOMAIN addons
       THEN /\ resp' = Response("delete_addon", HTTP_404, <<"Addon not found">>, <<>>)
            /\ UNCHANGED addons
       ELSE /\ addons' = [i \in DOMAIN addons \ {addon_id} |-> addons[i]]
            /\ resp' = Response("delete_addon", HTTP_200,
                                <<"Addon deleted successfully">>, <<>>)
    /\ UNCHANGED <<products, events, banners, contacts, orders, admins, now, issued, puts>>

----------------------------------------------------------------------------
(* Events.                                                                 *)

EventRow(id, event) ==
    [id |-> id,
     name |-> event.name,
     date |-> event.date,
     endDate |-> event.endDate,
     active |-> event.active,
     featured |-> event.featured]

EventBody(row) ==
    [id |-> Some(row.id),
     name |-> row.name,
     date |-> row.date,
     endDate |-> row.endDate,
     active |-> row.active,
     featured |-> row.featured]

EventIdTaken(event) == event.id # None /\ event.id[1] \in DOMAIN events

\* The date rule of create_event and update_event.
EndsTooEarlyAlt(event) == event.endDate < event.date
EndsTooEarly(event) == event.endDate <= event.date

create_event(event) ==
    /\ UNCHANGED inflight
    /\ req' = Request("create_event", [body |-> event])
    /\ IF EventIdTaken(event)
       THEN /\ resp' = Response("create_event", HTTP_400,
                                <<"Event with this ID already exists">>, <<>>)
            /\ UNCHANGED events
       ELSE IF EndsTooEarly(event)
       THEN /\ resp' = Response("create_event", HTTP_400,
                                <<"endDate must be after date">>, <<>>)
            /\ UNCHANGED events
       ELSE LET id == NextRowId(events)
                row == EventRow(id, event)
            IN  /\ events' = (id :> row) @@ events
                /\ resp' = Response("create_event", HTTP_200, <<>>, <<EventBody(row)>>)
    /\ UNCHANGED <<products, addons, banners, contacts, orders, admins, now, issued, puts>>

get_event(event_id) ==
    /\ UNCHANGED inflight
    /\ req' = Request("get_event", [id |-> event_id])
    /\ resp' = IF event_id \notin DOMAIN events
               THEN Response("get_event", HTTP_404, <<"Event not found">>, <<>>)
               ELSE Response("get_event", HTTP_200, <<>>, <<EventBody(events[event_id])>>)
    /\ UNCHANGED <<products, addons, events, banners, contacts, orders, admins, now,
                   issued, puts>>

update_event(event_id, updated_event) ==
    /\ UNCHANGED inflight
    /\ req' = Request("update_event", [id |-> event_id, body |-> updated_event])
    /\ IF event_id \notin DOMAIN events
       THEN /\ resp' = Response("update_event", HTTP_404, <<"Event not found">>, <<>>)
            /\ UNCHANGED events
       ELSE IF EndsTooEarly(updated_event)
       THEN /\ resp' = Response("update_event", HTTP_400,
                                <<"endDate must be after date">>, <<>>)
            /\ UNCHANGED events
       ELSE LET row == EventRow(event_id, updated_event)
            IN  /\ events' = [events EXCEPT ![event_id] = row]
                /\ resp' = Response("update_event", HTTP_200, <<>>, <<EventBody(row)>>)
    /\ UNCHANGED <<products, addons, banners, contacts, orders, admins, now, issued, puts>>

delete_event(event_id) ==
    /\ UNCHANGED inflight
    /\ req' = Request("delete_event", [id |-> event_id])
    /\ IF event_id \notin DOMAIN events
       THEN /\ resp' = Response("delete_event", HTTP_404, <<"Event not found">>, <<>>)
            /\ UNCHANGED events
       ELSE /\ events' = [i \in DOMAIN events \ {event_id} |-> events[i]]
            /\ resp' = Response("delete_event", HTTP_200,
                                <<"Event deleted successfully">>, <<>>)
    /\ UNCHANGED <<products, addons, banners, contacts, orders, admins, now, issued, puts>>

----------------------------------------------------------------------------
(* Banner and Contact.                                                     *)

BannerRow(id, banner_config) ==
    [id |-> id,
     enabled |-> banner_config.enabled,
     imageUrl |-> banner_config.imageUrl,
     title |-> banner_config.title,
     description |-> banner_config.description]

\* The assignments of update_banner to the row it found.
BannerAssignAlt(row, banner_config) ==
    [row EXCEPT !.enabled = banner_config.enabled,
                !.imageUrl = banner_config.imageUrl,
                !.title = banner_config.title]
BannerAssign(row, banner_config) ==
    [row EXCEPT !.enabled = banner_config.enabled,
                !.imageUrl = banner_config.imageUrl,
                !.title = banner_config.title,
                !.description = banner_config.description]

BannerBody(row) ==
    [enabled |-> row.enabled, imageUrl |-> row.imageUrl, title |-> row.title,
     description |-> row.description]

get_banner ==
    /\ UNCHANGED inflight
    /\ req' = Request("get_banner", <<>>)
    /\ resp' = IF banners = <<>>
               THEN Response("get_banner", HTTP_404, <<"Banner configuration not found">>, <<>>)
               ELSE Response("get_banner", HTTP_200, <<>>, <<BannerBody(banners[1])>>)
    /\ UNCHANGED <<products, addons, events, banners, contacts, orders, admins, now,
                   issued, puts>>

update_banner(banner_config) ==
    /\ UNCHANGED inflight
    /\ req' = Request("update_banner", [body |-> banner_config])
    /\ banners' = IF banners = <<>>
                  THEN <<BannerRow(1, banner_config)>>
                  ELSE [banners EXCEPT ![1] = BannerAssign(banners[1], banner_config)]
    /\ resp' = Response("update_banner", HTTP_200, <<>>, <<BannerBody(banners'[1])>>)
    /\ puts' = [puts EXCEPT !.banner = Some(banner_config),
                            !.nbanner = IF @ < MaxPutCount THEN @ + 1 ELSE @]
    /\ UNCHANGED <<products, addons, events, contacts, orders, admins, now, issued>>

ContactRow(id, contact_config) ==
    [id |-> id,
     instagram |-> contact_config.instagram,
     whatsapp |-> contact_config.whatsapp,
     email |-> contact_config.email]

ContactAssign(row, contact_config) ==
    [row EXCEPT !.instagram = contact_config.instagram,
                !.whatsapp = contact_config.whatsapp,
                !.email = contact_config.email]

ContactBody(row) ==
    [instagram |-> row.instagram, whatsapp |-> row.whatsapp, email |-> row.email]

get_contact ==
    /\ UNCHANGED inflight
    /\ req' = Request("get_contact", <<>>)
    /\ resp' = IF contacts = <<>>
               THEN Response("get_contact", HTTP_404, <<"Contact configuration not found">>, <<>>)
               ELSE Response("get_contact", HTTP_200, <<>>, <<ContactBody(contacts[1])>>)
    /\ UNCHANGED <<products, addons, events, banners, contacts, orders, admins, now,
                   issued, puts>>

update_contact(contact_config) ==
    /\ UNCHANGED inflight
    /\ req' = Request("update_contact", [body |-> contact_config])
    /\ contacts' = IF contacts = <<>>
                   THEN <<ContactRow(1, contact_config)>>
                   ELSE [contacts EXCEPT ![1] = ContactAssign(contacts[1], contact_config)]
    /\ resp' = Response("update_contact", HTTP_200, <<>>, <<ContactBody(contacts'[1])>>)
    /\ puts' = [puts EXCEPT !.contact = Some(contact_config),
                            !.ncontact = IF @ < MaxPutCount THEN @ + 1 ELSE @]
    /\ UNCHANGED <<products, addons, events, banners, orders, admins, now, issued>>

----------------------------------------------------------------------------
(* Orders: serialisation of items and customer.                            *)

\* json.dumps(order_addon.model_dump())
dumps_addon(a) ==
    JObj(<< <<"addonId", JNum(a.addonId)>>,
            <<"quantity", JNum(a.quantity)>>,
            <<"notes", dumps_opt_str(a.notes)>> >>)

\* json.dumps(item.model_dump())
dumps_item(item) ==
    JObj(<< <<"productId", JNum(item.productId)>>,
            <<"quantity", JNum(item.quantity)>>,
            <<"addons", JArr([k \in 1..Len(item.addons) |-> dumps_addon(item.addons[k])])>> >>)

\* json.dumps([item.model_dump() for item in order.items])
dumps_items(items) == JArr([i \in 1..Len(items) |-> dumps_item(items[i])])

\* json.dumps(order.customer.model_dump())
dumps_customer(c) ==
    JObj(<< <<"name", JStr(c.name)>>,
            <<"delivery", JBool(c.delivery)>>,
            <<"deliveryAddress", dumps_opt_str(c.deliveryAddress)>>,
            <<"pickupAtEvent", JBool(c.pickupAtEvent)>> >>)

\* OrderAddon(**addon_data): notes defaults to "" when the key is absent.
OrderAddon(addon_data) ==
    [addonId |-> JGet(addon_data, "addonId")[2],
     quantity |-> JGet(addon_data, "quantity")[2],
     notes |-> IF JHas(addon_data, "notes")
               THEN loads_opt_str(JGet(addon_data, "notes"))
               ELSE Some("")]

\* OrderItem(**item_data): addons defaults to [] when the key is absent.
OrderItem(item_data) ==
    [productId |-> JGet(item_data, "productId")[2],
     quantity |-> JGet(item_data, "quantity")[2],
     addons |-> IF JHas(item_data, "addons")
                THEN LET xs == JGet(item_data, "addons")[2]
                     IN  [k \in 1..Len(xs) |-> OrderAddon(xs[k])]
                ELSE <<>>]

\* [OrderItem(**item_data) for item_data in json.loads(order.items)]
loads_items(text) == [i \in 1..Len(text[2]) |-> OrderItem(text[2][i])]

\* OrderCustomer(**json.loads(order.customer))
OrderCustomer(customer_data) ==
    [name |-> JGet(customer_data, "name")[2],
     delivery |-> JGet(customer_data, "delivery")[2],
     deliveryAddress |-> IF JHas(customer_data, "deliveryAddress")
                         THEN loads_opt_str(JGet(customer_data, "deliveryAddress"))
                         ELSE None,
     pickupAtEvent |-> JGet(customer_data, "pickupAtEvent")[2]]

\* The OrderModel a read builds from a stored row.
OrderBody(row) ==
    [id |-> Some(row.id),
     date |-> Some(row.date),
     items |-> loads_items(row.items),
     customer |-> OrderCustomer(row.customer),
     total |-> Some(row.total),
     unique_order_id |-> Some(row.unique_order_id)]

----------------------------------------------------------------------------
(* Orders: pricing.                                                        *)

\* total_price += product.price * item.quantity
ProductLineAlt(product, item) == product.price
ProductLine(product, item) == product.price * item.quantity

\* total_price += addon.price * addon_item.quantity
AddonLineAlt(addon, addon_item) == addon.price
AddonLine(addon, addon_item) == addon.price * addon_item.quantity

Priced(total) == [ok |-> TRUE, total |-> total, detail |-> <<>>]
Missing(kind, id) == [ok |-> FALSE, total |-> 0, detail |-> <<kind, id>>]

\* for addon_item in item.addons: ... (from position k, total_price so far)
RECURSIVE addons_loop(_, _, _)
addons_loop(addon_items, k, total_price) ==
    IF k > Len(addon_items) THEN Priced(total_price)
    ELSE IF addon_items[k].addonId \notin DOMAIN addons
    THEN Missing("Addon", addon_items[k].addonId)
    ELSE addons_loop(addon_items, k + 1,
                     total_price + AddonLine(addons[addon_items[k].addonId], addon_items[k]))

\* A loop that looks up the products of all remaining items before any addon.
RECURSIVE items_loopAlt(_, _, _)
items_loopAlt(items, i, total_price) ==
    LET absent == {j \in i..Len(items) : items[j].productId \notin DOMAIN products}
    IN  IF i > Len(items) THEN Priced(total_price)
        ELSE IF absent # {}
        THEN Missing("Product", items[CHOOSE j \in absent : \A m \in absent : j <= m].productId)
        ELSE LET inner == addons_loop(items[i].addons, 1,
                                      total_price + ProductLine(products[items[i].productId], items[i]))
             IN  IF inner.ok THEN items_loopAlt(items, i + 1, inner.total) ELSE inner

\* for item in order.items: ... (from position i, total_price so far)
RECURSIVE items_loop(_, _, _)
items_loop(items, i, total_price) ==
    IF i > Len(items) THEN Priced(total_price)
    ELSE IF items[i].productId \notin DOMAIN products
    THEN Missing("Product", items[i].productId)
    ELSE LET inner == addons_loop(items[i].addons, 1,
                                  total_price + ProductLine(products[items[i].productId], items[i]))
         IN  IF inner.ok THEN items_loop(items, i + 1, inner.total) ELSE inner

----------------------------------------------------------------------------
(* Orders: the handlers.                                                   *)

UniqueIdTaken(uid) == \E i \in 1..Len(orders) : orders[i].unique_order_id = uid

\* total=total_price of the inserted row
CreateTotalAlt(order, total_price) ==
    IF order.total = None THEN total_price ELSE order.total[1]
CreateTotal(order, total_price) == total_price

\* uid is the value uuid.uuid4().hex returns
create_order(order, uid) ==
    LET current_date == now
        priced == items_loop(order.items, 1, 0)
    IN
    /\ UNCHANGED inflight
    /\ req' = Request("create_order", [body |-> order])
    /\ IF ~priced.ok
       THEN /\ resp' = Response("create_order", HTTP_404, priced.detail, <<>>)
            /\ UNCHANGED orders
       ELSE IF UniqueIdTaken(uid)
       THEN \* the unique constraint on unique_order_id fails the commit
            /\ resp' = Response("create_order", HTTP_500, <<"IntegrityError">>, <<>>)
            /\ UNCHANGED orders
       ELSE LET db_order == [id |-> Len(orders) + 1,
                             date |-> current_date,
                             items |-> dumps_items(order.items),
                             customer |-> dumps_customer(order.customer),
                             total |-> CreateTotal(order, priced.total),
                             unique_order_id |-> uid]
            IN  /\ orders' = Append(orders, db_order)
                /\ resp' = Response("create_order", HTTP_200, <<>>,
                                    << [id |-> Some(db_order.id),
                                        date |-> Some(db_order.date),
                                        items |-> order.items,
                                        customer |-> order.customer,
                                        total |-> Some(db_order.total),
                                        unique_order_id |-> Some(db_order.unique_order_id)] >>)
    /\ UNCHANGED <<products, addons, events, banners, contacts, admins, now, issued, puts>>

\* The assignments of update_order_by_unique_id to the row it found.
OrderAssignAlt(db_order, updated_order, total_price) ==
    [db_order EXCEPT !.items = dumps_items(updated_order.items),
                     !.customer = dumps_customer(updated_order.customer),
                     !.total = total_price,
                     !.date = now]
OrderAssign(db_order, updated_order, total_price) ==
    [db_order EXCEPT !.items = dumps_items(updated_order.items),
                     !.customer = dumps_customer(updated_order.customer),
                     !.total = total_price]

update_order_by_unique_id(order_id, updated_order) ==
    LET priced == items_loop(updated_order.items, 1, 0)
    IN
    /\ UNCHANGED inflight
    /\ req' = Request("update_order_by_unique_id", [id |-> order_id, body |-> updated_order])
    /\ IF order_id \notin 1..Len(orders)
       THEN /\ resp' = Response("update_order_by_unique_id", HTTP_404, <<"Order not found">>, <<>>)
            /\ UNCHANGED orders
       ELSE IF ~priced.ok
       THEN /\ resp' = Response("update_order_by_unique_id", HTTP_404, priced.detail, <<>>)
            /\ UNCHANGED orders
       ELSE /\ orders' = [orders EXCEPT ![order_id] = OrderAssign(@, updated_order, priced.total)]
            /\ resp' = Response("update_order_by_unique_id", HTTP_200, <<>>, <<updated_order>>)
    /\ UNCHANGED <<products, addons, events, banners, contacts, admins, now, issued, puts>>

get_order_by_unique_id(unique_order_id) ==
    /\ UNCHANGED inflight
    /\ req' = Request("get_order_by_unique_id", [id |-> unique_order_id])
    /\ resp' = IF ~UniqueIdTaken(unique_order_id)
               THEN Response("get_order_by_unique_id", HTTP_404, <<"Order not found">>, <<>>)
               ELSE LET i == CHOOSE j \in 1..Len(orders) :
                                  orders[j].unique_order_id = unique_order_id
                    IN  Response("get_order_by_unique_id", HTTP_200, <<>>, <<OrderBody(orders[i])>>)
    /\ UNCHANGED <<products, addons, events, banners, contacts, orders, admins, now,
                   issued, puts>>

----------------------------------------------------------------------------
(* Administrator, tokens, order listing.                                   *)

SECRET_KEY == "secret"
ADMIN_PASSWORD == "admin-password"
ACCESS_TOKEN_EXPIRE_MINUTES == 1440

get_password_hash(password) == <<"bcrypt", password>>
verify_password(plain_password, hashed_password) ==
    hashed_password = get_password_hash(plain_password)

\* The row init_admin inserts at startup.
init_admin == [id |-> 1, username |-> "admin",
               password_hash |-> get_password_hash(ADMIN_PASSWORD)]

\* The admin row, or None (False in the source).
authenticate_admin(username, password) ==
    LET found == {i \in 1..Len(admins) : admins[i].username = username}
    IN  IF found = {} THEN None
        ELSE LET admin == admins[CHOOSE i \in found : \A j \in found : i <= j]
             IN  IF ~verify_password(password, admin.password_hash) THEN None
                 ELSE Some(admin)

\* jwt.encode(claims, key, algorithm="HS256")
jwt_encode(claims, key) ==
    [wellformed |-> TRUE, claims |-> claims, sig |-> <<"HS256", key, claims>>]

\* expire = now + timedelta(minutes=ACCESS_TOKEN_EXPIRE_MINUTES)
TokenExpiryAlt(at) == at
TokenExpiry(at) == at + ACCESS_TOKEN_EXPIRE_MINUTES

create_access_token(data) ==
    jwt_encode([sub |-> data.sub, id |-> data.id, exp |-> TokenExpiry(now)], SECRET_KEY)

admin_login(username, password) ==
    LET admin == authenticate_admin(username, password)
    IN
    /\ UNCHANGED inflight
    /\ req' = Request("admin_login", [username |-> username, password |-> password])
    /\ IF admin = None
       THEN /\ resp' = Response("admin_login", HTTP_200, <<"Invalid credentials">>,
                                << [success |-> FALSE, token |-> None] >>)
            /\ UNCHANGED issued
       ELSE LET access_token == create_access_token([sub |-> admin[1].username,
                                                     id |-> admin[1].id])
            IN  /\ resp' = Response("admin_login", HTTP_200, <<>>,
                                    << [success |-> TRUE, token |-> Some(access_token)] >>)
                /\ issued' = issued \cup {[token |-> access_token, at |-> now]}
    /\ UNCHANGED <<products, addons, events, banners, contacts, orders, admins, now, puts>>

\* The claims of a bearer credential, or None for an AuthError: the credential is
\* absent, malformed, wrongly signed or past its expiry.
verify_token(credentials) ==
    IF credentials = None THEN None
    ELSE LET token == credentials[1]
         IN  IF ~token.wellformed THEN None
             ELSE IF token.sig # <<"HS256", SECRET_KEY, token.claims>> THEN None
             ELSE IF token.claims.exp < now THEN None
             ELSE Some(token.claims)

\* The OrderModel get_orders builds from a stored row.
ListedOrderAlt(order) ==
    [id |-> Some(order.id), date |-> Some(order.date), items |-> <<>>,
     customer |-> OrderCustomer(order.customer), total |-> Some(order.total),
     unique_order_id |-> Some(order.unique_order_id)]
ListedOrder(order) ==
    LET items_data == order.items[2]
        addons_of(item_data) ==
            IF JHas(item_data, "addons")
            THEN LET xs == JGet(item_data, "addons")[2]
                 IN  [k \in 1..Len(xs) |-> OrderAddon(xs[k])]
            ELSE <<>>
    IN  [id |-> Some(order.id),
         date |-> Some(order.date),
         items |-> [i \in 1..Len(items_data) |->
                       [productId |-> JGet(items_data[i], "productId")[2],
                        quantity |-> JGet(items_data[i], "quantity")[2],
                        addons |-> addons_of(items_data[i])]],
         customer |-> OrderCustomer(order.customer),
         total |-> Some(order.total),
         unique_order_id |-> Some(order.unique_order_id)]

get_orders(credentials) ==
    /\ UNCHANGED inflight
    /\ req' = Request("get_orders", [credentials |-> credentials])
    /\ resp' = IF verify_token(credentials) = None
               THEN Response("get_orders", HTTP_401, <<"AuthError">>, <<>>)
               ELSE Response("get_orders", HTTP_200, <<>>,
                             [i \in 1..Len(orders) |-> ListedOrder(orders[i])])
    /\ UNCHANGED <<products, addons, events, banners, contacts, orders, admins, now,
                   issued, puts>>

\* The clock advances by d minutes.
Tick(d) ==
    /\ now' = now + d
    /\ UNCHANGED <<products, addons, events, banners, contacts, orders, admins,
                   issued, puts, inflight, req, resp>>

----------------------------------------------------------------------------
(* Requests in flight.  The handlers above are a handler run from its      *)
(* first query to its commit with no statement of another request in       *)
(* between, which is how one server process runs them (an async def body   *)
(* without await).  Server processes that share the database interleave    *)
(* at its statements: the steps below are the update handlers cut between  *)
(* their reads and their commit.  Each request has its own Session         *)
(* (get_db), which keeps the row it queried as loaded.                     *)

\* db.commit() on a loaded row whose attributes were assigned: the session's
\* flush issues UPDATE ... SET for the attributes whose assigned value differs
\* from the loaded one, WHERE id = the row's id; the other columns of the stored
\* row stay as they are.
Flush(stored, loaded, assigned) ==
    [f \in DOMAIN stored |-> IF assigned[f] = loaded[f] THEN stored[f] ELSE assigned[f]]

Finish(c) == inflight' = [inflight EXCEPT ![c] = Idle]

\* update_product up to its validation: the query of the row and the two checks.
update_product_query(c, product_id, updated_product) ==
    /\ inflight[c] = Idle
    /\ IF product_id \notin DOMAIN products
       THEN /\ req' = Request("update_product", [id |-> product_id, body |-> updated_product])
            /\ resp' = Response("update_product", HTTP_404, <<"Product not found">>, <<>>)
            /\ UNCHANGED inflight
       ELSE IF EventIdMissing(updated_product)
       THEN /\ req' = Request("update_product", [id |-> product_id, body |-> updated_product])
            /\ resp' = Response("update_product", HTTP_400,
                                <<"eventId is required when eventOnly is true">>, <<>>)
            /\ UNCHANGED inflight
       ELSE /\ inflight' = [inflight EXCEPT ![c] =
                               [pc |-> "update_product", id |-> product_id,
                                body |-> updated_product, db_row |-> products[product_id]]]
            /\ UNCHANGED <<req, resp>>
    /\ UNCHANGED <<products, addons, events, banners, contacts, orders, admins, now,
                   issued, puts>>

\* update_product from its setattr loop on: the assignments, commit, refresh.
update_product_commit(c) ==
    LET s == inflight[c]
        assigned == ProductRow(s.id, s.body)
    IN
    /\ s.pc = "update_product"
    /\ req' = Request("update_product", [id |-> s.id, body |-> s.body])
    /\ IF s.id \notin DOMAIN products
       THEN \* the UPDATE matches no row
            /\ resp' = Response("update_product", HTTP_500, <<"StaleDataError">>, <<>>)
            /\ UNCHANGED products
       ELSE /\ products' = [products EXCEPT ![s.id] = Flush(@, s.db_row, assigned)]
            /\ resp' = Response("update_product", HTTP_200, <<>>,
                                <<ProductBody(products'[s.id])>>)
    /\ Finish(c)
    /\ UNCHANGED <<addons, events, banners, contacts, orders, admins, now, issued, puts>>

\* update_order_by_unique_id up to the end of its pricing loop.
update_order_query(c, order_id, updated_order) ==
    LET priced == items_loop(updated_order.items, 1, 0)
        request == Request("update_order_by_unique_id",
                           [id |-> order_id, body |-> updated_order])
    IN
    /\ inflight[c] = Idle
    /\ IF order_id \notin 1..Len(orders)
       THEN /\ req' = request
            /\ resp' = Response("update_order_by_unique_id", HTTP_404, <<"Order not found">>, <<>>)
            /\ UNCHANGED inflight
       ELSE IF ~priced.ok
       THEN /\ req' = request
            /\ resp' = Response("update_order_by_unique_id", HTTP_404, priced.detail, <<>>)
            /\ UNCHANGED inflight
       ELSE /\ inflight' = [inflight EXCEPT ![c] =
                               [pc |-> "update_order_by_unique_id", id |-> order_id,
                                body |-> updated_order, db_row |-> orders[order_id],
                                total_price |-> priced.total]]
            /\ UNCHANGED <<req, resp>>
    /\ UNCHANGED <<products, addons, events, banners, contacts, orders, admins, now,
                   issued, puts>>

\* update_order_by_unique_id from "Update the order data" on.
update_order_commit(c) ==
    LET s == inflight[c]
        assigned == OrderAssign(s.db_row, s.body, s.total_price)
    IN
    /\ s.pc = "update_order_by_unique_id"
    /\ req' = Request("update_order_by_unique_id", [id |-> s.id, body |-> s.body])
    /\ orders' = [orders EXCEPT ![s.id] = Flush(@, s.db_row, assigned)]
    /\ resp' = Response("update_order_by_unique_id", HTTP_200, <<>>, <<s.body>>)
    /\ Finish(c)
    /\ UNCHANGED <<products, addons, events, banners, contacts, admins, now, issued, puts>>

\* The first row of a table, as db.query(...).first() returns it.
first(table) == IF table = <<>> THEN None ELSE Some(table[1])

\* The stored row with the id of a loaded row, written by its session's flush.
FlushRow(table, loaded, assigned) ==
    [i \in 1..Len(table) |->
        IF table[i].id = loaded.id THEN Flush(table[i], loaded, assigned) ELSE table[i]]

\* update_banner up to its check: the query of the first row.
update_banner_query(c, banner_config) ==
    /\ inflight[c] = Idle
    /\ inflight' = [inflight EXCEPT ![c] =
                       [pc |-> "update_banner", body |-> banner_config,
                        db_row |-> first(banners)]]
    /\ UNCHANGED <<products, addons, events, banners, contacts, orders, admins, now,
                   issued, puts, req, resp>>

\* update_banner from its check on: insert or assignments, commit, refresh.
update_banner_commit(c) ==
    LET s == inflight[c]
        db_banner == IF s.db_row = None
                     THEN BannerRow(Len(banners) + 1, s.body)
                     ELSE BannerAssign(s.db_row[1], s.body)
    IN
    /\ s.pc = "update_banner"
    /\ req' = Request("update_banner", [body |-> s.body])
    /\ banners' = IF s.db_row = None
                  THEN Append(banners, db_banner)
                  ELSE FlushRow(banners, s.db_row[1], db_banner)
    /\ resp' = Response("update_banner", HTTP_200, <<>>,
                        <<BannerBody(banners'[CHOOSE i \in 1..Len(banners') :
                                                 banners'[i].id = db_banner.id])>>)
    /\ puts' = [puts EXCEPT !.banner = Some(s.body),
                            !.nbanner = IF @ < MaxPutCount THEN @ + 1 ELSE @]
    /\ Finish(c)
    /\ UNCHANGED <<products, addons, events, contacts, orders, admins, now, issued>>

\* update_contact up to its check: the query of the first row.
update_contact_query(c, contact_config) ==
    /\ inflight[c] = Idle
    /\ inflight' = [inflight EXCEPT ![c] =
                       [pc |-> "update_contact", body |-> contact_config,
                        db_row |-> first(contacts)]]
    /\ UNCHANGED <<products, addons, events, banners, contacts, orders, admins, now,
                   issued, puts, req, resp>>

\* update_contact from its check on: insert or assignments, commit, refresh.
update_contact_commit(c) ==
    LET s == inflight[c]
        db_contact == IF s.db_row = None
                      THEN ContactRow(Len(contacts) + 1, s.body)
                      ELSE ContactAssign(s.db_row[1], s.body)
    IN
    /\ s.pc = "update_contact"
    /\ req' = Request("update_contact", [body |-> s.body])
    /\ contacts' = IF s.db_row = None
                   THEN Append(contacts, db_contact)
                   ELSE FlushRow(contacts, s.db_row[1], db_contact)
    /\ resp' = Response("update_contact", HTTP_200, <<>>,
                        <<ContactBody(contacts'[CHOOSE i \in 1..Len(contacts') :
                                                   contacts'[i].id = db_contact.id])>>)
    /\ puts' = [puts EXCEPT !.contact = Some(s.body),
                            !.ncontact = IF @ < MaxPutCount THEN @ + 1 ELSE @]
    /\ Finish(c)
    /\ UNCHANGED <<products, addons, events, banners, orders, admins, now, issued>>

----------------------------------------------------------------------------
(* The state after startup: init_db() has created empty tables and the     *)
(* lifespan hook has inserted the default administrator.                   *)

Init ==
    /\ products = <<>>
    /\ addons = <<>>
    /\ events = <<>>
    /\ banners = <<>>
    /\ contacts = <<>>
    /\ orders = <<>>
    /\ admins = <<init_admin>>
    /\ now = 0
    /\ issued = {}
    /\ puts = [banner |-> None, contact |-> None, nbanner |-> 0, ncontact |-> 0]
    /\ inflight = [c \in Clients |-> Idle]
    /\ req = Request("none", <<>>)
    /\ resp = Response("none", 0, <<>>, <<>>)

----------------------------------------------------------------------------
(* Request bodies the specifications draw from.                            *)

ProductModel(price, eventOnly, eventId) ==
    [id |-> None, name |-> "cake", price |-> price, available |-> TRUE,
     applicableAddons |-> <<>>, eventOnly |-> eventOnly, eventId |-> eventId]

AddonModel(id, price) ==
    [id |-> id, name |-> "candle", price |-> price, available |-> TRUE,
     applicableProducts |-> <<>>]

\* Items plus addons of an item list.
RECURSIVE Nodes(_)
Nodes(items) ==
    IF items = <<>> THEN 0
    ELSE 1 + Len(Head(items).addons) + Nodes(Tail(items))

\* The item lists of at most n nodes over the given ids, quantities and notes.
ItemLists(pids, qtys, aids, aqtys, notes, n) ==
    LET addon_items == [addonId : aids, quantity : aqtys, notes : notes]
        order_items == [productId : pids, quantity : qtys,
                        addons : SeqsUpTo(addon_items, n - 1)]
    IN  {items \in SeqsUpTo({it \in order_items : 1 + Len(it.addons) <= n}, n) :
            Nodes(items) <= n}

CustomerA ==
    [name |-> "ann", delivery |-> FALSE, deliveryAddress |-> None, pickupAtEvent |-> TRUE]
CustomerB ==
    [name |-> "bob", delivery |-> TRUE, deliveryAddress |-> Some("1 Main St"),
     pickupAtEvent |-> FALSE]

\* A body that leaves the server-assigned fields out, and one that sets them all.
OrderModelPlain(items, customer) ==
    [id |-> None, date |-> None, items |-> items, customer |-> customer,
     total |-> None, unique_order_id |-> None]
OrderModelForged(items, customer) ==
    [id |-> Some(7), date |-> Some(99), items |-> items, customer |-> customer,
     total |-> Some(99), unique_order_id |-> Some("client")]

----------------------------------------------------------------------------
(* Pricing: one product and one addon whose prices change, orders created  *)
(* and updated against them.                                               *)

ProductPrices == {2, 3}
AddonPrices == {5}
ItemQuantities == {-1, 2}
AddonQuantities == {3}

PricedItemLists ==
    ItemLists(1..MaxPricedId, ItemQuantities, 1..MaxPricedId, AddonQuantities,
              {Some("")}, MaxNodes)

PricedOrders ==
    {OrderModelPlain(items, CustomerA) : items \in PricedItemLists}
    \cup {OrderModelForged(items, CustomerB) : items \in PricedItemLists}

NextOrder ==
    \/ \E price \in ProductPrices :
          /\ NextRowId(products) <= MaxPricedId
          /\ create_product(ProductModel(price, FALSE, None))
    \/ \E id \in 1..MaxPricedId, price \in ProductPrices :
          update_product(id, ProductModel(price, FALSE, None))
    \/ \E id \in 1..MaxPricedId : delete_product(id)
    \/ \E price \in AddonPrices :
          /\ NextRowId(addons) <= MaxPricedId
          /\ create_addon(AddonModel(None, price))
    \/ \E id \in 1..MaxPricedId : delete_addon(id)
    \/ \E order \in PricedOrders :
          /\ create_order(order, "u1")
          /\ Len(orders') <= MaxOrders
    \/ \E id \in 1..(MaxOrders + 1), order \in PricedOrders :
          update_order_by_unique_id(id, order)
    \/ \E uid \in {"u1", "u2"} : get_order_by_unique_id(uid)
    \/ now < MaxClock /\ Tick(1)

SpecOrder == Init /\ [][NextOrder]_vars

----------------------------------------------------------------------------
(* Lookup: products and addons come and go, orders reference them.         *)

LookupItemLists ==
    ItemLists(1..MaxRowId, {1}, 1..MaxRowId, {1}, {Some("")}, MaxNodesLookup)

NextLookup ==
    \/ /\ NextRowId(products) <= MaxRowId
       /\ create_product(ProductModel(2, FALSE, None))
    \/ \E id \in 1..MaxRowId : delete_product(id)
    \/ /\ NextRowId(addons) <= MaxRowId
       /\ create_addon(AddonModel(None, 5))
    \/ \E id \in 1..MaxRowId : delete_addon(id)
    \/ \E items \in LookupItemLists :
          /\ create_order(OrderModelPlain(items, CustomerA), "u1")
          /\ Len(orders') <= MaxOrders

SpecLookup == Init /\ [][NextLookup]_vars

----------------------------------------------------------------------------
(* Reading back: orders with notes and customers of every shape are        *)
(* created and read by their unique_order_id.                              *)

NotesValues == {None, Some(""), Some("no nuts")}

ReadItemLists == ItemLists({1}, {2}, {1}, {1}, NotesValues, MaxNodes)

ReadOrders ==
    {OrderModelPlain(items, customer) :
        items \in ReadItemLists, customer \in {CustomerA, CustomerB}}

UniqueIds == {"u1", "u2"}

NextRead ==
    \/ /\ NextRowId(products) <= 1
       /\ create_product(ProductModel(2, FALSE, None))
    \/ /\ NextRowId(addons) <= 1
       /\ create_addon(AddonModel(None, 5))
    \/ \E order \in ReadOrders, uid \in UniqueIds :
          /\ create_order(order, uid)
          /\ Len(orders') <= MaxOrdersRead
    \/ \E uid \in UniqueIds \cup {"u3"} : get_order_by_unique_id(uid)

SpecRead == Init /\ [][NextRead]_vars

----------------------------------------------------------------------------
(* Catalog: products, and events, are created, replaced and deleted.       *)

\* The id of a request body is client-supplied; create_product never reads it.
CatalogProducts ==
    {[ProductModel(2, eventOnly, eventId) EXCEPT !.id = id] :
        id \in {None, Some(1)}, eventOnly \in BOOLEAN, eventId \in {None, Some(1)}}

NextProducts ==
    \/ \E product \in CatalogProducts :
          /\ create_product(product)
          /\ \A id \in DOMAIN products' : id <= MaxRowId
    \/ \E id \in 1..(MaxRowId + 1), product \in CatalogProducts :
          update_product(id, product)
    \/ \E id \in 1..(MaxRowId + 1) : get_product(id)
    \/ \E id \in 1..(MaxRowId + 1) : delete_product(id)

SpecProducts == Init /\ [][NextProducts]_vars

EventModel(id, date, endDate) ==
    [id |-> id, name |-> "fair", date |-> date, endDate |-> endDate,
     active |-> TRUE, featured |-> FALSE]

CatalogEvents ==
    {EventModel(id, date, endDate) :
        id \in {None} \cup {Some(i) : i \in 1..MaxRowId},
        date \in 0..MaxEventTime, endDate \in 0..MaxEventTime}

NextEvents ==
    \/ \E event \in CatalogEvents :
          /\ create_event(event)
          /\ \A id \in DOMAIN events' : id <= MaxRowId
    \/ \E id \in 1..(MaxRowId + 1), event \in CatalogEvents :
          update_event(id, event)
    \/ \E id \in 1..(MaxRowId + 1) : delete_event(id)

SpecEvents == Init /\ [][NextEvents]_vars

----------------------------------------------------------------------------
(* Site configuration: the banner and the contact are put and read.        *)

BannerModels ==
    [enabled : BOOLEAN, imageUrl : {"a.png", "b.png"}, title : {"Sale", "Open"},
     description : {"", "today"}]

ContactModels ==
    [instagram : {"@a", "@b"}, whatsapp : {"1", "2"}, email : {"a@x", "b@x"}]

NextConfig ==
    \/ get_banner
    \/ \E banner_config \in BannerModels : update_banner(banner_config)
    \/ get_contact
    \/ \E contact_config \in ContactModels : update_contact(contact_config)

SpecConfig == Init /\ [][NextConfig]_vars

----------------------------------------------------------------------------
(* Listing: administrators log in, time passes, orders are listed.         *)

TickMinutes == ACCESS_TOKEN_EXPIRE_MINUTES \div 2
MaxAuthClock == MaxTicks * TickMinutes

\* Credentials a client can present without the signing key.
ForgedToken ==
    [wellformed |-> TRUE,
     claims |-> [sub |-> "admin", id |-> 1, exp |-> MaxAuthClock + ACCESS_TOKEN_EXPIRE_MINUTES],
     sig |-> <<"HS256", "guess", [sub |-> "admin", id |-> 1,
                                  exp |-> MaxAuthClock + ACCESS_TOKEN_EXPIRE_MINUTES]>>]
MalformedToken ==
    [wellformed |-> FALSE, claims |-> [sub |-> "", id |-> 0, exp |-> 0], sig |-> <<>>]

Credentials ==
    {None, Some(ForgedToken), Some(MalformedToken)} \cup {Some(t.token) : t \in issued}

ListedItemLists == ItemLists({1}, {2}, {1}, {1}, {Some("")}, MaxNodes)

NextAuth ==
    \/ /\ NextRowId(products) <= 1
       /\ create_product(ProductModel(2, FALSE, None))
    \/ /\ NextRowId(addons) <= 1
       /\ create_addon(AddonModel(None, 5))
    \/ \E items \in ListedItemLists :
          /\ Len(orders) < MaxOrdersRead
          /\ create_order(OrderModelPlain(items, CustomerA),
                          CHOOSE uid \in UniqueIds \cup {"u3"} : ~UniqueIdTaken(uid))
    \/ \E username \in {"admin", "root"}, password \in {ADMIN_PASSWORD, "guess"} :
          /\ admin_login(username, password)
          /\ Cardinality(issued') <= MaxTokens
    \/ \E credentials \in Credentials : get_orders(credentials)
    \/ now + TickMinutes <= MaxAuthClock /\ Tick(TickMinutes)

SpecAuth == Init /\ [][NextAuth]_vars

----------------------------------------------------------------------------
(* Addressing: every record kind is read, replaced and deleted by ids that *)
(* are stored and by ids that are not, with bodies that keep and bodies    *)
(* that break the cross-field rules.                                       *)

AddressedProducts == {ProductModel(2, FALSE, None), ProductModel(2, TRUE, None)}

AddressedEvents == {EventModel(None, 0, 1), EventModel(None, 1, 1), EventModel(None, 1, 0)}

AddressedItemLists == ItemLists(1..MaxPricedId, {1}, 1..MaxPricedId, {1}, {Some("")}, MaxNodes)

NextAddressed ==
    \/ /\ NextRowId(products) <= MaxPricedId
       /\ create_product(ProductModel(2, FALSE, None))
    \/ \E id \in 1..(MaxPricedId + 1) : get_product(id)
    \/ \E id \in 1..(MaxPricedId + 1), product \in AddressedProducts : update_product(id, product)
    \/ \E id \in 1..(MaxPricedId + 1) : delete_product(id)
    \/ /\ NextRowId(addons) <= MaxPricedId
       /\ create_addon(AddonModel(None, 5))
    \/ \E id \in 1..(MaxPricedId + 1) : get_addon(id)
    \/ \E id \in 1..(MaxPricedId + 1) : update_addon(id, AddonModel(None, 5))
    \/ \E id \in 1..(MaxPricedId + 1) : delete_addon(id)
    \/ /\ NextRowId(events) <= MaxPricedId
       /\ create_event(EventModel(None, 0, 1))
    \/ \E id \in 1..(MaxPricedId + 1) : get_event(id)
    \/ \E id \in 1..(MaxPricedId + 1), event \in AddressedEvents : update_event(id, event)
    \/ \E id \in 1..(MaxPricedId + 1) : delete_event(id)
    \/ \E items \in AddressedItemLists :
          /\ create_order(OrderModelPlain(items, CustomerA), "u1")
          /\ Len(orders') <= MaxOrders
    \/ \E id \in 1..(MaxOrders + 1), items \in AddressedItemLists :
          update_order_by_unique_id(id, OrderModelPlain(items, CustomerB))
    \/ \E uid \in UniqueIds : get_order_by_unique_id(uid)

SpecAddressed == Init /\ [][NextAddressed]_vars

----------------------------------------------------------------------------
(* Concurrent updates: two clients update the one product and the one      *)
(* order, each request's commit coming any time after its reads.           *)

StoredProduct == ProductModel(2, FALSE, None)
RaceProducts ==
    {[StoredProduct EXCEPT !.available = FALSE],
     [StoredProduct EXCEPT !.eventOnly = TRUE, !.eventId = Some(1)]}

StoredOrder == OrderModelPlain(<<[productId |-> 1, quantity |-> 1, addons |-> <<>>]>>, CustomerA)
RaceOrders ==
    {[StoredOrder EXCEPT !.items[1].quantity = 2],
     [StoredOrder EXCEPT !.customer = CustomerB]}

NextRace ==
    \/ /\ NextRowId(products) <= 1
       /\ create_product(StoredProduct)
    \/ /\ create_order(StoredOrder, "u1")
       /\ Len(orders') <= MaxOrders
    \/ \E c \in Clients, product \in RaceProducts :
          update_product_query(c, NextRowId(products), product)
    \/ \E c \in Clients, product \in RaceProducts : update_product_query(c, 1, product)
    \/ \E c \in Clients : update_product_commit(c)
    \/ \E c \in Clients, id \in 1..MaxOrders, order \in RaceOrders :
          update_order_query(c, id, order)
    \/ \E c \in Clients : update_order_commit(c)

SpecRace == Init /\ [][NextRace]_vars

----------------------------------------------------------------------------
(* Orders beside the catalog: products and addons are created, repriced    *)
(* and deleted while orders are created, updated, read and listed.         *)

RepricedAddons == {5, 6}

KeptItemLists ==
    ItemLists(1..MaxPricedId, {2}, 1..MaxPricedId, {3}, {Some("")}, MaxNodes)

NextKept ==
    \/ \E price \in ProductPrices :
          /\ NextRowId(products) <= MaxPricedId
          /\ create_product(ProductModel(price, FALSE, None))
    \/ \E id \in 1..MaxPricedId, price \in ProductPrices :
          update_product(id, ProductModel(price, FALSE, None))
    \/ \E id \in 1..MaxPricedId : delete_product(id)
    \/ \E price \in RepricedAddons :
          /\ NextRowId(addons) <= MaxPricedId
          /\ create_addon(AddonModel(None, price))
    \/ \E id \in 1..MaxPricedId, price \in RepricedAddons :
          update_addon(id, AddonModel(None, price))
    \/ \E id \in 1..MaxPricedId : delete_addon(id)
    \/ \E items \in KeptItemLists :
          /\ create_order(OrderModelPlain(items, CustomerA), "u1")
          /\ Len(orders') <= MaxOrders
    \/ \E id \in 1..MaxOrders, items \in KeptItemLists :
          update_order_by_unique_id(id, OrderModelPlain(items, CustomerB))
    \/ \E uid \in UniqueIds : get_order_by_unique_id(uid)
    \/ /\ admin_login("admin", ADMIN_PASSWORD)
       /\ Cardinality(issued') <= 1
    \/ \E credentials \in Credentials : get_orders(credentials)

SpecKept == Init /\ [][NextKept]_vars

----------------------------------------------------------------------------
(* Concurrent puts: clients put the banner and the contact, each request's *)
(* commit coming any time after its query of the first row.                *)

RaceBanners ==
    {[enabled |-> TRUE, imageUrl |-> "a.png", title |-> title, description |-> ""] :
        title \in {"Sale", "Open"}}

RaceContacts ==
    {[instagram |-> instagram, whatsapp |-> "1", email |-> "a@x"] :
        instagram \in {"@a", "@b"}}

NextRaceConfig ==
    \/ get_banner
    \/ \E c \in Clients, banner_config \in RaceBanners : update_banner_query(c, banner_config)
    \/ \E c \in Clients : update_banner_commit(c)
    \/ get_contact
    \/ \E c \in Clients, contact_config \in RaceContacts :
          update_contact_query(c, contact_config)
    \/ \E c \in Clients : update_contact_commit(c)

SpecRaceConfig == Init /\ [][NextRaceConfig]_vars

----------------------------------------------------------------------------
(* What the properties below are stated with.                              *)

RECURSIVE SumTo(_, _)
SumTo(f, n) == IF n = 0 THEN 0 ELSE f[n] + SumTo(f, n - 1)

\* Every product and addon an item list references is in the catalog.
AllExist(items) ==
    \A i \in 1..Len(items) :
        /\ items[i].productId \in DOMAIN products
        /\ \A k \in 1..Len(items[i].addons) : items[i].addons[k].addonId \in DOMAIN addons

\* The sum of the product lines plus the sum of all addon lines, at catalog prices.
ExpectedTotal(items) ==
    SumTo([i \in 1..Len(items) |->
              products[items[i].productId].price * items[i].quantity], Len(items))
    + SumTo([i \in 1..Len(items) |->
                SumTo([k \in 1..Len(items[i].addons) |->
                          addons[items[i].addons[k].addonId].price
                          * items[i].addons[k].quantity], Len(items[i].addons))],
            Len(items))

\* The catalog references of an item list, in input order.
RECURSIVE Refs(_)
Refs(items) ==
    IF items = <<>> THEN <<>>
    ELSE << <<"Product", Head(items).productId>> >>
         \o [k \in 1..Len(Head(items).addons) |-> <<"Addon", Head(items).addons[k].addonId>>]
         \o Refs(Tail(items))

IsMissing(ref) ==
    IF ref[1] = "Product" THEN ref[2] \notin DOMAIN products ELSE ref[2] \notin DOMAIN addons

FirstMissing(items) ==
    LET refs == Refs(items)
        k == CHOOSE j \in 1..Len(refs) :
                 IsMissing(refs[j]) /\ \A m \in 1..(j - 1) : ~IsMissing(refs[m])
    IN  refs[k]

----------------------------------------------------------------------------
(* C1: the total create_order persists and returns is the sum, over the    *)
(* items of the request, of stored product price times quantity, plus the  *)
(* sum over all their addons of stored addon price times quantity; a total *)
(* in the request body plays no part.                                      *)

C1_CreateTotalIsCatalogSum ==
    (resp.op = "create_order" /\ resp.status = HTTP_200) =>
        LET items == req.args.body.items
            row == orders[resp.body[1].id[1]]
        IN  /\ AllExist(items)
            /\ row.total = ExpectedTotal(items)
            /\ resp.body[1].total = Some(ExpectedTotal(items))

\* An order of a product with an addon is created at the raised price, by a
\* request that carried its own total.
C1_Witness ==
    /\ resp.op = "create_order" /\ resp.status = HTTP_200
    /\ req.args.body.total = Some(99)
    /\ Len(req.args.body.items) = 1 /\ Len(req.args.body.items[1].addons) = 1
    /\ products[1].price = 3
    /\ orders[1].total = 21

----------------------------------------------------------------------------
(* C3: an update of a stored order whose items all exist replaces the      *)
(* stored items and customer, sets the stored total to the sum over the    *)
(* new items at current prices and keeps id, unique_order_id and date;     *)
(* any other update answers 404 and leaves the orders as they were.        *)

C3_UpdateRecomputesAndPreserves ==
    [][(req'.op = "update_order_by_unique_id" /\ now' = now) =>
        LET id == req'.args.id
            body == req'.args.body
        IN  IF id \in 1..Len(orders) /\ AllExist(body.items)
            THEN /\ resp'.status = HTTP_200
                 /\ Len(orders') = Len(orders)
                 /\ \A j \in 1..Len(orders) : j # id => orders'[j] = orders[j]
                 /\ loads_items(orders'[id].items) = body.items
                 /\ OrderCustomer(orders'[id].customer) = body.customer
                 /\ orders'[id].total = ExpectedTotal(body.items)
                 /\ orders'[id].id = orders[id].id
                 /\ orders'[id].unique_order_id = orders[id].unique_order_id
                 /\ orders'[id].date = orders[id].date
            ELSE /\ resp'.status = HTTP_404
                 /\ orders' = orders]_vars

\* An order created at minute 0 has been updated at minute 1 with another customer.
C3_Witness ==
    /\ resp.op = "update_order_by_unique_id" /\ resp.status = HTTP_200
    /\ now = 1 /\ orders[1].date = 0
    /\ req.args.body.customer = CustomerB
    /\ orders[1].total = 6

----------------------------------------------------------------------------
(* C4: the order a successful update returns carries the stored order's    *)
(* id, date, unique_order_id and recomputed total.                         *)

C4_UpdateReturnsServerValues ==
    (resp.op = "update_order_by_unique_id" /\ resp.status = HTTP_200) =>
        LET row == orders[req.args.id]
        IN  /\ resp.body[1].id = Some(row.id)
            /\ resp.body[1].date = Some(row.date)
            /\ resp.body[1].unique_order_id = Some(row.unique_order_id)
            /\ resp.body[1].total = Some(row.total)

----------------------------------------------------------------------------
(* C7: every stored order has a total of at least zero, and every item and *)
(* addon of it has a quantity of at least one.                             *)

C7_StoredOrdersWellFormed ==
    \A i \in 1..Len(orders) :
        LET items == loads_items(orders[i].items)
        IN  /\ orders[i].total >= 0
            /\ \A n \in 1..Len(items) :
                   /\ items[n].quantity >= 1
                   /\ \A k \in 1..Len(items[n].addons) : items[n].addons[k].quantity >= 1

----------------------------------------------------------------------------
(* C2: when an item list references a product or addon that is not in the  *)
(* catalog, create_order answers 404 naming the first missing reference in *)
(* input order (each item's product, then its addons, item by item) and    *)
(* stores nothing.                                                         *)

C2_NotFoundNamesFirstMissing ==
    [][(req'.op = "create_order" /\ now' = now
        /\ \E k \in 1..Len(Refs(req'.args.body.items)) :
               IsMissing(Refs(req'.args.body.items)[k])) =>
           /\ resp'.status = HTTP_404
           /\ resp'.detail = FirstMissing(req'.args.body.items)
           /\ orders' = orders]_vars

\* With an order stored, a request whose first item has a missing addon and whose
\* second item has a missing product was refused for the addon.
C2_Witness ==
    /\ resp.op = "create_order" /\ resp.status = HTTP_404
    /\ resp.detail[1] = "Addon"
    /\ Len(req.args.body.items) = 2
    /\ req.args.body.items[2].productId \notin DOMAIN products
    /\ Len(orders) = 1

----------------------------------------------------------------------------
(* C5: reading an order by the unique_order_id its creation returned gives *)
(* the items, customer and total of the creation response; stored orders   *)
(* are not changed by creating or reading; reading a unique_order_id no    *)
(* stored order has answers 404.                                           *)

C5_ReadBackRoundTrip ==
    [][/\ \A i \in 1..Len(orders) : i <= Len(orders') /\ orders'[i] = orders[i]
       /\ (req'.op = "get_order_by_unique_id" /\ now' = now) =>
            /\ resp'.status = IF \E i \in 1..Len(orders) :
                                     orders[i].unique_order_id = req'.args.id
                              THEN HTTP_200 ELSE HTTP_404
            /\ (/\ resp.op = "create_order" /\ resp.status = HTTP_200
                /\ resp.body[1].unique_order_id = Some(req'.args.id)) =>
                   /\ resp'.body[1].items = resp.body[1].items
                   /\ resp'.body[1].customer = resp.body[1].customer
                   /\ resp'.body[1].total = resp.body[1].total
                   /\ resp'.body[1].unique_order_id = resp.body[1].unique_order_id]_vars

\* The second order, whose addon has no notes, has been read back.
C5_Witness ==
    /\ resp.op = "get_order_by_unique_id" /\ resp.status = HTTP_200
    /\ Len(orders) = 2
    /\ resp.body[1].id = Some(2)
    /\ Len(resp.body[1].items) = 1 /\ Len(resp.body[1].items[1].addons) = 1
    /\ resp.body[1].items[1].addons[1].notes = None
    /\ resp.body[1].customer = CustomerB

----------------------------------------------------------------------------
(* C6: get_orders answers AuthError and returns no order when the request  *)
(* has no token, a malformed token, a wrongly signed token or a token      *)
(* issued more than ACCESS_TOKEN_EXPIRE_MINUTES ago; with a token a        *)
(* successful login issued at most that long ago it returns every stored   *)
(* order.                                                                  *)

C6_ListingIsGated ==
    [][(req'.op = "get_orders" /\ now' = now) =>
        LET credentials == req'.args.credentials
        IN  /\ resp'.status \in {HTTP_200, HTTP_401}
            /\ resp'.status = HTTP_401 => resp'.body = <<>>
            /\ credentials \in {None, Some(MalformedToken), Some(ForgedToken)} =>
                   resp'.status = HTTP_401
            /\ \A t \in issued :
                   credentials = Some(t.token) =>
                       IF now > t.at + ACCESS_TOKEN_EXPIRE_MINUTES
                       THEN resp'.status = HTTP_401
                       ELSE /\ resp'.status = HTTP_200
                            /\ Len(resp'.body) = Len(orders)
                            /\ \A i \in 1..Len(orders) : resp'.body[i] = OrderBody(orders[i])]_vars

\* Two orders are listed with a token on the last minute of its validity.
C6_Witness ==
    /\ resp.op = "get_orders" /\ resp.status = HTTP_200
    /\ Len(resp.body) = 2
    /\ \E i \in 1..2 : Len(resp.body[i].items) = 1 /\ Len(resp.body[i].items[1].addons) = 1
    /\ req.args.credentials[1].claims.exp = now
    /\ now > 0

----------------------------------------------------------------------------
(* C8: every stored product with eventOnly set has an eventId; a create,   *)
(* or an update of a stored product, with eventOnly set and no eventId     *)
(* answers 400 and leaves the products as they were, and any other create  *)
(* or update of a stored product succeeds and stores the body.             *)

C8_EventOnlyNeedsEventId ==
    [][/\ \A id \in DOMAIN products' :
              products'[id].eventOnly => products'[id].eventId # None
       /\ (req'.op = "create_product") =>
              LET body == req'.args.body
              IN  IF body.eventOnly /\ body.eventId = None
                  THEN resp'.status = HTTP_400 /\ products' = products
                  ELSE /\ resp'.status = HTTP_200
                       /\ \E id \in DOMAIN products' \ DOMAIN products :
                              /\ products' = (id :> products'[id]) @@ products
                              /\ products'[id].eventOnly = body.eventOnly
                              /\ products'[id].eventId = body.eventId
       /\ (req'.op = "update_product" /\ req'.args.id \in DOMAIN products) =>
              LET body == req'.args.body
                  id == req'.args.id
              IN  IF body.eventOnly /\ body.eventId = None
                  THEN resp'.status = HTTP_400 /\ products' = products
                  ELSE /\ resp'.status = HTTP_200
                       /\ DOMAIN products' = DOMAIN products
                       /\ \A other \in DOMAIN products \ {id} : products'[other] = products[other]
                       /\ products'[id].eventOnly = body.eventOnly
                       /\ products'[id].eventId = body.eventId]_vars

\* An update that sets eventOnly without an eventId was refused; the product stored
\* is an event-only product with its eventId.
C8_Witness ==
    /\ resp.op = "update_product" /\ resp.status = HTTP_400
    /\ req.args.id \in DOMAIN products
    /\ products[req.args.id].eventOnly /\ products[req.args.id].eventId = Some(1)

----------------------------------------------------------------------------
(* C9, as stated: every stored event ends strictly after it starts; a      *)
(* create, or an update of a stored event, with endDate <= date answers    *)
(* 400 and leaves the events as they were, and with endDate > date it      *)
(* succeeds.                                                               *)

EventsOrdered(table) == \A id \in DOMAIN table : table[id].endDate > table[id].date

C9_DatesDecideAlone ==
    [][/\ EventsOrdered(events')
       /\ (\/ req'.op = "create_event"
           \/ req'.op = "update_event" /\ req'.args.id \in DOMAIN events) =>
              IF req'.args.body.endDate <= req'.args.body.date
              THEN resp'.status = HTTP_400 /\ events' = events
              ELSE resp'.status = HTTP_200]_vars

(* C9, amended: every stored event ends strictly after it starts; a create *)
(* whose body carries the id of a stored event answers 400 ("already       *)
(* exists") whatever its dates; any other create, and an update of a       *)
(* stored event, answers 400 and leaves the events as they were when       *)
(* endDate <= date, and succeeds, storing the dates, when endDate > date.  *)

C9_DatesDecideUnlessIdTaken ==
    [][/\ EventsOrdered(events')
       /\ (req'.op = "create_event") =>
              LET body == req'.args.body
              IN  IF body.id # None /\ body.id[1] \in DOMAIN events
                  THEN /\ resp'.status = HTTP_400
                       /\ resp'.detail = <<"Event with this ID already exists">>
                       /\ events' = events
                  ELSE IF body.endDate <= body.date
                  THEN /\ resp'.status = HTTP_400
                       /\ resp'.detail = <<"endDate must be after date">>
                       /\ events' = events
                  ELSE /\ resp'.status = HTTP_200
                       /\ \E id \in DOMAIN events' \ DOMAIN events :
                              /\ events' = (id :> events'[id]) @@ events
                              /\ events'[id].date = body.date
                              /\ events'[id].endDate = body.endDate
       /\ (req'.op = "update_event" /\ req'.args.id \in DOMAIN events) =>
              LET body == req'.args.body
                  id == req'.args.id
              IN  IF body.endDate <= body.date
                  THEN /\ resp'.status = HTTP_400
                       /\ resp'.detail = <<"endDate must be after date">>
                       /\ events' = events
                  ELSE /\ resp'.status = HTTP_200
                       /\ DOMAIN events' = DOMAIN events
                       /\ \A other \in DOMAIN events \ {id} : events'[other] = events[other]
                       /\ events'[id].date = body.date
                       /\ events'[id].endDate = body.endDate]_vars

\* A create with endDate after date was refused because its id is that of a stored event.
C9_Witness ==
    /\ resp.op = "create_event" /\ resp.status = HTTP_400
    /\ req.args.body.endDate > req.args.body.date
    /\ req.args.body.id # None /\ req.args.body.id[1] \in DOMAIN events

----------------------------------------------------------------------------
(* C10: the banner and the contact have no row, and their get answers 404, *)
(* exactly while nothing was put; after a put there is one row, the one    *)
(* the first put created, it holds the fields of the last put, and get     *)
(* returns them.                                                           *)

C10_UpsertSingleton ==
    /\ Len(banners) = (IF puts.nbanner = 0 THEN 0 ELSE 1)
    /\ puts.nbanner = 0 <=> puts.banner = None
    /\ puts.nbanner > 0 =>
           /\ banners[1].id = 1
           /\ BannerBody(banners[1]) = puts.banner[1]
    /\ resp.op = "get_banner" =>
           IF puts.nbanner = 0
           THEN resp.status = HTTP_404 /\ resp.body = <<>>
           ELSE resp.status = HTTP_200 /\ resp.body = <<puts.banner[1]>>
    /\ resp.op = "update_banner" => resp.status = HTTP_200
    /\ Len(contacts) = (IF puts.ncontact = 0 THEN 0 ELSE 1)
    /\ puts.ncontact = 0 <=> puts.contact = None
    /\ puts.ncontact > 0 =>
           /\ contacts[1].id = 1
           /\ ContactBody(contacts[1]) = puts.contact[1]
    /\ resp.op = "get_contact" =>
           IF puts.ncontact = 0
           THEN resp.status = HTTP_404 /\ resp.body = <<>>
           ELSE resp.status = HTTP_200 /\ resp.body = <<puts.contact[1]>>
    /\ resp.op = "update_contact" => resp.status = HTTP_200

\* The banner is read after its second put, the contact having been put as well.
C10_Witness ==
    /\ resp.op = "get_banner" /\ resp.status = HTTP_200
    /\ puts.nbanner = 2 /\ puts.ncontact = 2
    /\ resp.body[1].description = "today"

----------------------------------------------------------------------------
(* C11: a get, update or delete of a product, addon or event, and a get or *)
(* update of an order, addressed to an id that is not stored answers 404   *)
(* with the record kind's "not found" detail, whatever the request body    *)
(* is (eventOnly without eventId, endDate <= date, items that reference    *)
(* missing products or addons), and leaves every table as it was.          *)

\* The request just handled was addressed to an id absent from the table before it.
AddressedToAbsent ==
    \/ /\ req'.op \in {"get_product", "update_product", "delete_product"}
       /\ req'.args.id \notin DOMAIN products
    \/ /\ req'.op \in {"get_addon", "update_addon", "delete_addon"}
       /\ req'.args.id \notin DOMAIN addons
    \/ /\ req'.op \in {"get_event", "update_event", "delete_event"}
       /\ req'.args.id \notin DOMAIN events
    \/ /\ req'.op = "update_order_by_unique_id"
       /\ req'.args.id \notin 1..Len(orders)
    \/ /\ req'.op = "get_order_by_unique_id"
       /\ ~UniqueIdTaken(req'.args.id)

NotFoundDetail(op) ==
    IF op \in {"get_product", "update_product", "delete_product"} THEN <<"Product not found">>
    ELSE IF op \in {"get_addon", "update_addon", "delete_addon"} THEN <<"Addon not found">>
    ELSE IF op \in {"get_event", "update_event", "delete_event"} THEN <<"Event not found">>
    ELSE <<"Order not found">>

C11_AbsentIdIsNotFound ==
    [][AddressedToAbsent =>
          /\ resp'.status = HTTP_404
          /\ resp'.detail = NotFoundDetail(req'.op)
          /\ UNCHANGED <<products, addons, events, banners, contacts, orders, admins>>]_vars

\* An update of an absent product whose body breaks the eventOnly rule, an
\* update of an absent event whose dates are out of order and an update of an
\* absent order whose items reference nothing stored were each answered 404.
C11_WitnessProduct ==
    /\ req.op = "update_product" /\ req.args.id \notin DOMAIN products
    /\ EventIdMissing(req.args.body) /\ resp.status = HTTP_404

C11_WitnessEvent ==
    /\ req.op = "update_event" /\ req.args.id \notin DOMAIN events
    /\ EndsTooEarly(req.args.body) /\ resp.status = HTTP_404

C11_WitnessOrder ==
    /\ req.op = "update_order_by_unique_id" /\ req.args.id \notin 1..Len(orders)
    /\ ~AllExist(req.args.body.items) /\ resp.status = HTTP_404

C11_Witness ==
    /\ C11_WitnessProduct
    /\ products # <<>> /\ addons # <<>> /\ events # <<>> /\ orders # <<>>

----------------------------------------------------------------------------
(* C12: when update requests to the same order, or to the same product,    *)
(* interleave, each of them succeeds, and after every commit the stored    *)
(* record holds exactly the field values of the request that committed:    *)
(* no field of another request is left in it, and the stored total of an   *)
(* order is the catalog sum of its stored items.                           *)

CommitsNow(c, op) == inflight[c].pc = op /\ inflight'[c] = Idle

C12_LastWriterWins ==
    [][\A c \in Clients :
          /\ CommitsNow(c, "update_product") =>
                /\ resp'.status = HTTP_200
                /\ products'[inflight[c].id] = ProductRow(inflight[c].id, inflight[c].body)
          /\ CommitsNow(c, "update_order_by_unique_id") =>
                LET stored == orders'[inflight[c].id]
                    body == inflight[c].body
                IN  /\ resp'.status = HTTP_200
                    /\ stored.items = dumps_items(body.items)
                    /\ stored.customer = dumps_customer(body.customer)
                    /\ stored.total = ExpectedTotal(loads_items(stored.items))]_vars

----------------------------------------------------------------------------
(* C13: no order create, update, read or listing changes a product or an   *)
(* addon; no operation removes a stored order or changes its               *)
(* unique_order_id; no catalog operation changes a stored order; and a     *)
(* read by the unique_order_id of a stored order answers 200 with the      *)
(* stored items and total, whatever has since become of the products and   *)
(* addons the order references.                                            *)

CatalogOps ==
    {"create_product", "update_product", "delete_product",
     "create_addon", "update_addon", "delete_addon"}

OrderOps ==
    {"create_order", "update_order_by_unique_id", "get_order_by_unique_id", "get_orders"}

C13_OrdersAndCatalogIndependent ==
    [][/\ req'.op \in OrderOps => UNCHANGED <<products, addons>>
       /\ req'.op \in CatalogOps => UNCHANGED orders
       /\ Len(orders') >= Len(orders)
       /\ \A i \in 1..Len(orders) :
             /\ orders'[i].id = orders[i].id
             /\ orders'[i].unique_order_id = orders[i].unique_order_id
       /\ (req'.op = "get_order_by_unique_id" /\ UniqueIdTaken(req'.args.id)) =>
             LET i == CHOOSE j \in 1..Len(orders) : orders[j].unique_order_id = req'.args.id
             IN  /\ resp'.status = HTTP_200
                 /\ resp'.body[1].items = loads_items(orders[i].items)
                 /\ resp'.body[1].total = Some(orders[i].total)
                 /\ resp'.body[1].unique_order_id = Some(req'.args.id)]_vars

\* A stored order was read with its stored total after the product and the
\* addon its items reference were deleted.
C13_Witness ==
    /\ req.op = "get_order_by_unique_id" /\ resp.status = HTTP_200
    /\ orders # <<>> /\ products = <<>> /\ addons = <<>>
    /\ \E i \in 1..Len(orders) :
          /\ orders[i].unique_order_id = req.args.id
          /\ Len(resp.body[1].items) > 0
          /\ Len(resp.body[1].items[1].addons) > 0
          /\ resp.body[1].total = Some(orders[i].total)

----------------------------------------------------------------------------
(* C14: the banner table and the contact table each hold at most one row   *)
(* in every reachable state, also when two puts both query the empty table *)
(* before either inserts.                                                  *)

C14_AtMostOneRow == Len(banners) <= 1 /\ Len(contacts) <= 1

====
